---------------------------- MODULE Spec2Model ----------------------------
(***************************************************************************)
(* State-machine model of src/app.py: the project / task / link / file     *)
(* tables, the request handlers that change them, the derived reads        *)
(* (Project.completion_percentage, api_gantt_data, export_gantt_csv,       *)
(* export_gantt_xml), and the user and group tables, the browser session   *)
(* and the backup scheduler with the admin handlers that change them.      *)
(*                                                                         *)
(* Spec, SpecSched, SpecCascade and SpecProgress model the project and     *)
(* task handlers for a session that has logged in as the root admin;       *)
(* SpecAdmin and SpecSchedule model login, logout and the login_required   *)
(* and admin_required guards.  Dates are proleptic Gregorian ordinals, as  *)
(* datetime.date keeps them (date.toordinal()).                            *)
(***************************************************************************)
EXTENDS Integers, Sequences, FiniteSets, TLC

VARIABLES projects, tasks, links, files, users, groups, session, jobs, calls

vars == <<projects, tasks, links, files, users, groups, session, jobs, calls>>

\* the user and group tables, the session cookie, the scheduler's job store and
\* the admin_schedule_api calls in flight
adminVars == <<users, groups, session, jobs, calls>>

-----------------------------------------------------------------------------
(* Bounds of the model.                                                    *)

MaxProjects == 2
MaxTasks == 2
MaxLinks == 1
MaxFiles == 1
\* number of tasks of the one project of SpecProgress
MaxTotal == 50
MaxUsers == 2
MaxGroups == 3
\* number of admin_schedule_api calls of one behaviour of SpecSchedule
MaxCalls == 2

ProjectIds == 1..MaxProjects
TaskIds == 1..MaxTasks
LinkIds == 1..MaxLinks
FileIds == 1..MaxFiles
UserIds == 1..MaxUsers
GroupIds == 1..MaxGroups
CallIds == 1..MaxCalls

-----------------------------------------------------------------------------
(* Python / SQLite primitives the handlers rely on.                        *)

\* datetime.date.max.toordinal(): date arithmetic beyond it raises OverflowError
date_max_ordinal == 3652059
\* datetime.date.min.toordinal()
date_min_ordinal == 1
\* timedelta(days=n) raises OverflowError when |n| exceeds this
timedelta_max_days == 999999999

Max(S) == CHOOSE x \in S : \A y \in S : y <= x

\* SQLite INTEGER PRIMARY KEY without AUTOINCREMENT: the new rowid is one more
\* than the largest rowid in the table (1 in an empty table), so the id of a
\* deleted last row is handed out again.
NextId(ids) == IF ids = {} THEN 1 ELSE Max(ids) + 1

IsLeap(y) == y % 4 = 0 /\ (y % 100 # 0 \/ y % 400 = 0)

DaysInMonth(y, m) ==
    IF m = 2 THEN (IF IsLeap(y) THEN 29 ELSE 28)
    ELSE IF m \in {4, 6, 9, 11} THEN 30 ELSE 31

RECURSIVE DaysBeforeMonth(_, _)
DaysBeforeMonth(y, m) ==
    IF m <= 1 THEN 0 ELSE DaysBeforeMonth(y, m - 1) + DaysInMonth(y, m - 1)

\* the empty text in a date field
NoDateText == [y |-> 0, m |-> 0, d |-> 0]

\* datetime.strptime(s, '%Y-%m-%d').date() for the text "y-m-d": ValueError when
\* the text names no calendar day, else the date (kept as its ordinal).
strptime_date(s) ==
    IF /\ s.y \in 1..9999
       /\ s.m \in 1..12
       /\ s.d >= 1
       /\ s.d <= DaysInMonth(s.y, s.m)
    THEN [ok |-> TRUE,
          ord |-> (s.y - 1) * 365 + ((s.y - 1) \div 4) - ((s.y - 1) \div 100)
                  + ((s.y - 1) \div 400) + DaysBeforeMonth(s.y, s.m) + s.d]
    ELSE [ok |-> FALSE, ord |-> 0]

\* date.isoformat(): the text "YYYY-MM-DD" of the date with the given ordinal
\* (a text "y-m-d" is kept as the record of its three numbers); the year, month
\* and day are found as CPython's _ord2ymd finds them, by 400-, 100-, 4- and
\* 1-year cycles
isoformat(ord) ==
    LET n0 == ord - 1
        n400 == n0 \div 146097
        r400 == n0 % 146097
        n100 == r400 \div 36524
        r100 == r400 % 36524
        n4 == r100 \div 1461
        r4 == r100 % 1461
        n1 == r4 \div 365
        r1 == r4 % 365
        year == n400 * 400 + 1 + n100 * 100 + n4 * 4 + n1
    IN  IF n1 = 4 \/ n100 = 4 THEN [y |-> year - 1, m |-> 12, d |-> 31]
        ELSE LET month == CHOOSE m \in 1..12 :
                              /\ DaysBeforeMonth(year, m) <= r1
                              /\ r1 < DaysBeforeMonth(year, m) + DaysInMonth(year, m)
             IN  [y |-> year, m |-> month, d |-> r1 - DaysBeforeMonth(year, month) + 1]

\* date.weekday(): Monday is 0, Sunday is 6
weekday(ord) == (ord + 6) % 7

\* date + timedelta(days=n): OverflowError outside date.min..date.max
date_plus_days(ord, n) ==
    IF \/ n > timedelta_max_days
       \/ n < -timedelta_max_days
       \/ ord + n > date_max_ordinal
       \/ ord + n < date_min_ordinal
    THEN [ok |-> FALSE, ord |-> 0]
    ELSE [ok |-> TRUE, ord |-> ord + n]

-----------------------------------------------------------------------------
(* Request values.  A JSON value or a form field is an integer, a          *)
(* non-integral number (kept in tenths) or a text (a sequence of           *)
(* characters).                                                            *)

JInt(v) == [kind |-> "int", val |-> v, chars |-> <<>>]
JFloat(tenths) == [kind |-> "float", val |-> tenths, chars |-> <<>>]
JStr(cs) == [kind |-> "str", val |-> 0, chars |-> cs]

Digits == {"0", "1", "2", "3", "4", "5", "6", "7", "8", "9"}

DigitVal(ch) ==
    CASE ch = "0" -> 0 [] ch = "1" -> 1 [] ch = "2" -> 2 [] ch = "3" -> 3
      [] ch = "4" -> 4 [] ch = "5" -> 5 [] ch = "6" -> 6 [] ch = "7" -> 7
      [] ch = "8" -> 8 [] ch = "9" -> 9

RECURSIVE DigitsVal(_, _)
DigitsVal(cs, acc) ==
    IF cs = <<>> THEN acc ELSE DigitsVal(Tail(cs), 10 * acc + DigitVal(Head(cs)))

RECURSIVE py_str(_)
\* str(n) of an integer n >= 0: its decimal digits
py_str(n) ==
    LET last == CHOOSE ch \in Digits : DigitVal(ch) = n % 10
    IN  IF n < 10 THEN <<last>> ELSE Append(py_str(n \div 10), last)

\* int("..."): an optional sign and at least one decimal digit, else ValueError
int_of_text(cs) ==
    LET signed == cs # <<>> /\ Head(cs) \in {"-", "+"}
        body == IF signed THEN Tail(cs) ELSE cs
    IN  IF body # <<>> /\ \A i \in 1..Len(body) : body[i] \in Digits
        THEN [ok |-> TRUE,
              val |-> IF signed /\ Head(cs) = "-"
                      THEN 0 - DigitsVal(body, 0) ELSE DigitsVal(body, 0)]
        ELSE [ok |-> FALSE, val |-> 0]

\* int(x): an integer is itself, a float is truncated toward zero, a text is parsed
py_int(x) ==
    CASE x.kind = "int" -> [ok |-> TRUE, val |-> x.val]
      [] x.kind = "float" ->
            [ok |-> TRUE,
             val |-> IF x.val >= 0 THEN x.val \div 10 ELSE 0 - ((0 - x.val) \div 10)]
      [] x.kind = "str" -> int_of_text(x.chars)

\* Python truthiness of a request value ("not duration" in the form handler)
truthy(x) ==
    CASE x.kind = "int" -> x.val # 0
      [] x.kind = "float" -> x.val # 0
      [] x.kind = "str" -> x.chars # <<>>

-----------------------------------------------------------------------------
(* IEEE-754 binary64 arithmetic of  int((completed / total) * 100).        *)
(* A positive float is a 53-bit mantissa, kept as three limbs hi, mid, lo  *)
(* (17 + 18 + 18 bits, hi * 2^36 + mid * 2^18 + lo), and the exponent e of *)
(* its last bit; every operation rounds to nearest, ties to even, as       *)
(* CPython's float does.                                                   *)

RECURSIVE Pow2(_)
Pow2(k) == IF k = 0 THEN 1 ELSE 2 * Pow2(k - 1)

Limb == Pow2(18)

RECURSIVE LeadShift(_, _, _)
\* the least z with c * 2^z >= n
LeadShift(c, n, z) == IF c >= n THEN z ELSE LeadShift(2 * c, n, z + 1)

\* the mantissa plus one unit in the last place (a carry out of hi is kept in hi)
ulp_up(hi, mid, lo, e) ==
    IF lo + 1 < Limb THEN [hi |-> hi, mid |-> mid, lo |-> lo + 1, e |-> e]
    ELSE IF mid + 1 < Limb THEN [hi |-> hi, mid |-> mid + 1, lo |-> 0, e |-> e]
    ELSE [hi |-> hi + 1, mid |-> 0, lo |-> 0, e |-> e]

\* c / n as a float, for 1 <= c <= n: long division, 53 quotient bits, and the
\* remainder decides the rounding
float_div(c, n) ==
    LET z == LeadShift(c, n, 0)
        t1 == c * Pow2(z) * Pow2(16)
        t2 == (t1 % n) * Limb
        t3 == (t2 % n) * Limb
        q1 == t1 \div n
        q2 == t2 \div n
        q3 == t3 \div n
        r3 == t3 % n
        up == 2 * r3 > n \/ (2 * r3 = n /\ q3 % 2 = 1)
    IN  IF up THEN ulp_up(q1, q2, q3, 0 - z - 52)
        ELSE [hi |-> q1, mid |-> q2, lo |-> q3, e |-> 0 - z - 52]

\* x * 100 as a float: the exact product has 59 or 60 bits, of which the low
\* 6 or 7 are rounded away
float_mul_100(x) ==
    LET p3 == x.lo * 100
        p2 == x.mid * 100 + (p3 \div Limb)
        p1 == x.hi * 100 + (p2 \div Limb)
        l3 == p3 % Limb
        l2 == p2 % Limb
        d == IF p1 >= Pow2(23) THEN 7 ELSE 6
        cut == Pow2(d)
        dropped == l3 % cut
        n3 == (l3 \div cut) + (l2 % cut) * (Limb \div cut)
        n2 == (l2 \div cut) + (p1 % cut) * (Limb \div cut)
        n1 == p1 \div cut
        up == \/ 2 * dropped > cut
              \/ (2 * dropped = cut /\ n3 % 2 = 1)
    IN  IF up THEN ulp_up(n1, n2, n3, x.e + d)
        ELSE [hi |-> n1, mid |-> n2, lo |-> n3, e |-> x.e + d]

\* int(x), truncation toward zero, of a float 0 < x < 2^17 (its integer part
\* lies in the hi limb)
float_trunc(x) ==
    LET k == (0 - x.e) - 36
    IN  IF k > 30 THEN 0 ELSE x.hi \div Pow2(k)

\* int((completed / total) * 100) for 0 <= completed <= total, total >= 1;
\* 0 / total is 0.0
percent_of(completed, total) ==
    IF completed = 0 THEN 0
    ELSE float_trunc(float_mul_100(float_div(completed, total)))

-----------------------------------------------------------------------------
(* The database after init_db(): no project, task, link or file, the root   *)
(* admin and the three default groups; no session, no scheduled job.       *)

EmptyTable == [i \in {} |-> 0]

\* generate_password_hash(password): the salted hash, kept as what it is a hash of
generate_password_hash(password) == [hash_of |-> password]

\* check_password_hash(pwhash, password)
check_password_hash(pwhash, password) == pwhash.hash_of = password

\* the default admin init_db() adds (it gets id 1 in a new database)
root_admin ==
    [username |-> "Admin", email |-> "admin@hendrycks.reno",
     password_hash |-> generate_password_hash("password"), role |-> "admin"]

\* the groups init_db() adds
default_groups ==
    [g \in DOMAIN <<"Development", "Sales", "TSC">> |->
        [name |-> <<"Development", "Sales", "TSC">>[g], user_ids |-> {}]]

\* a session cookie with no key
NoSession == [k \in {} |-> ""]

\* a job store with no job
NoJobs == [j \in {} |-> 0]

\* an admin_schedule_api call that has not been made yet
NoCall == [pc |-> "idle", unit |-> "", interval |-> 0, completed |-> 0]

Init ==
    /\ projects = {}
    /\ tasks = EmptyTable
    /\ links = EmptyTable
    /\ files = EmptyTable
    /\ users = [u \in {NextId({})} |-> root_admin]
    /\ groups = default_groups
    /\ session = NoSession
    /\ jobs = NoJobs
    /\ calls = [c \in CallIds |-> NoCall]

\* table with row id added or replaced
Put(table, id, row) ==
    [i \in DOMAIN table \cup {id} |-> IF i = id THEN row ELSE table[i]]

\* table without the rows whose id is in ids
Without(table, ids) == [i \in DOMAIN table \ ids |-> table[i]]

\* Task(...) as the handlers construct it; is_completed takes the column default
new_task(project_id, start_date, duration_days) ==
    [project_id |-> project_id, start_date |-> start_date,
     duration_days |-> duration_days, is_completed |-> FALSE]

-----------------------------------------------------------------------------
(* Derived reads.                                                          *)

\* a row field holding None (JSON null), or else a list of row ids
PyNone == [none |-> TRUE, ids |-> <<>>]

\* Project.tasks: the tasks whose project_id is the project's id
project_tasks(p) == {t \in DOMAIN tasks : tasks[t].project_id = p}

\* [mutant of task_orders] the project's tasks in the order of their ids, the
\* order in which they were created
task_orders_by_id(p) ==
    LET S == {t \in DOMAIN tasks : tasks[t].project_id = p}
        n == Cardinality(S)
    IN  {o \in [1..n -> S] : \A i, j \in 1..n : i < j => o[i] < o[j]}

\* Project.tasks is loaded with ORDER BY task.start_date: every order of the
\* project's tasks with non-decreasing start dates; SQL leaves the order of
\* equal start dates open
task_orders(p) ==
    LET S == project_tasks(p)
        n == Cardinality(S)
    IN  {o \in [1..n -> S] :
            /\ \A i, j \in 1..n : i # j => o[i] # o[j]
            /\ \A i, j \in 1..n :
                  i < j => tasks[o[i]].start_date <= tasks[o[j]].start_date}

\* [mutant of completion_percentage] the completed tasks of every project are
\* counted against the project's own total
completion_percentage_any_project(p) ==
    LET total == Cardinality(project_tasks(p))
    IN  IF total = 0 THEN 0
        ELSE percent_of(Cardinality({t \in DOMAIN tasks : tasks[t].is_completed}), total)

\* Project.completion_percentage
completion_percentage(p) ==
    LET total == Cardinality(project_tasks(p))
    IN  IF total = 0 THEN 0
        ELSE percent_of(Cardinality({t \in project_tasks(p) : tasks[t].is_completed}),
                        total)

RECURSIVE addBusinessDays(_, _)
\* spec.md 4.1: the n-th business day strictly after the day from (Saturdays and
\* Sundays are not counted); from itself for n = 0
addBusinessDays(from, n) ==
    IF n <= 0 THEN from
    ELSE IF weekday(from + 1) \in {5, 6} THEN addBusinessDays(from + 1, n)
    ELSE addBusinessDays(from + 1, n - 1)

\* [mutant of gantt_row] the end date counted in business days
gantt_row_business_days(t) ==
    LET start_date == tasks[t].start_date
        duration == IF tasks[t].duration_days > 0 THEN tasks[t].duration_days ELSE 1
        end_date == date_plus_days(start_date, duration)
    IN  [ok |-> end_date.ok,
         row |-> [id |-> t, start |-> start_date,
                  end |-> IF end_date.ok THEN addBusinessDays(start_date, duration) ELSE 0,
                  duration |-> PyNone,
                  percent |-> IF tasks[t].is_completed THEN 100 ELSE 0,
                  dependencies |-> PyNone]]

\* [mutant of gantt_row] the percent column carries the progress of the project
gantt_row_project_percent(t) ==
    LET start_date == tasks[t].start_date
        duration == IF tasks[t].duration_days > 0 THEN tasks[t].duration_days ELSE 1
        end_date == date_plus_days(start_date, duration)
    IN  [ok |-> end_date.ok,
         row |-> [id |-> t, start |-> start_date, end |-> end_date.ord,
                  duration |-> PyNone,
                  percent |-> completion_percentage(tasks[t].project_id),
                  dependencies |-> PyNone]]

\* one row of api_gantt_data; ok is FALSE when the date addition overflows
gantt_row(t) ==
    LET start_date == tasks[t].start_date
        duration == IF tasks[t].duration_days > 0 THEN tasks[t].duration_days ELSE 1
        end_date == date_plus_days(start_date, duration)
    IN  [ok |-> end_date.ok,
         row |-> [id |-> t, start |-> start_date, end |-> end_date.ord,
                  duration |-> PyNone,
                  percent |-> IF tasks[t].is_completed THEN 100 ELSE 0,
                  dependencies |-> PyNone]]

\* the list rows.append(...) adds for a row: str(t.id), str(t.name),
\* t.contractor_type, the two ISO dates, None, percent, None.  The task name and
\* the contractor type are free texts the model does not keep: the two columns
\* hold a reference to the stored column of the task.
gantt_row_list(r) ==
    <<py_str(r.id),
      [column |-> "name", task |-> r.id],
      [column |-> "contractor_type", task |-> r.id],
      isoformat(r.start),
      isoformat(r.end),
      r.duration,
      r.percent,
      r.dependencies>>

\* the responses api_gantt_data can give (one per order the query may return)
api_gantt_data(source_type, source_id) ==
    IF source_type = "project" /\ source_id \in projects
    THEN IF \E t \in project_tasks(source_id) : ~gantt_row(t).ok
         THEN {[status |-> 500, tasks |-> <<>>]}
         ELSE {[status |-> 200, tasks |-> [i \in DOMAIN o |-> gantt_row(o[i]).row]] :
                  o \in task_orders(source_id)}
    ELSE {[status |-> 200, tasks |-> <<>>]}

\* one data row of export_gantt_csv
csv_row(t) ==
    LET end_date == date_plus_days(tasks[t].start_date, tasks[t].duration_days)
    IN  [ok |-> end_date.ok,
         row |-> [id |-> t, start |-> tasks[t].start_date, end |-> end_date.ord,
                  duration |-> tasks[t].duration_days,
                  status |-> IF tasks[t].is_completed THEN "Completed" ELSE "Active"]]

\* the responses export_gantt_csv can give
export_gantt_csv(source_type, source_id) ==
    IF source_type = "project" /\ source_id \in projects
    THEN IF \E t \in project_tasks(source_id) : ~csv_row(t).ok
         THEN {[status |-> 500, rows |-> <<>>]}
         ELSE {[status |-> 200, rows |-> [i \in DOMAIN o |-> csv_row(o[i]).row]] :
                  o \in task_orders(source_id)}
    ELSE {[status |-> 200, rows |-> <<>>]}

\* one <Task> element of export_gantt_xml: the id, the start date and the stored
\* duration; no end date is computed
xml_row(t) ==
    [id |-> t, start |-> tasks[t].start_date, duration |-> tasks[t].duration_days]

\* the responses export_gantt_xml can give
export_gantt_xml(source_type, source_id) ==
    IF source_type = "project" /\ source_id \in projects
    THEN {[status |-> 200, rows |-> [i \in DOMAIN o |-> xml_row(o[i])]] :
             o \in task_orders(source_id)}
    ELSE {[status |-> 200, rows |-> <<>>]}

-----------------------------------------------------------------------------
(* Handlers that change the database.  A handler that raises is answered   *)
(* with status 500 and its session is discarded uncommitted.               *)

\* api_save_project: d.id = 0 stands for a request with no (or a falsy) id
api_save_project(d) ==
    /\ IF d.id = 0 THEN projects' = projects \cup {NextId(projects)}
       ELSE projects' = projects
    /\ UNCHANGED <<tasks, links, files>>

\* [mutant of delete_project_api] the project's tasks go, their links and files stay
delete_project_tasks_only(project_id) ==
    IF project_id \in projects
    THEN /\ projects' = projects \ {project_id}
         /\ tasks' = Without(tasks, project_tasks(project_id))
         /\ UNCHANGED <<links, files>>
    ELSE UNCHANGED vars

\* db.session.delete(p) with cascade="all, delete-orphan" on Project.tasks,
\* Task.links and Task.files
delete_project_api(project_id) ==
    IF project_id \in projects
    THEN LET gone == project_tasks(project_id)
         IN  /\ projects' = projects \ {project_id}
             /\ tasks' = Without(tasks, gone)
             /\ links' = Without(links, {l \in DOMAIN links : links[l].task_id \in gone})
             /\ files' = Without(files, {f \in DOMAIN files : files[f].task_id \in gone})
    ELSE UNCHANGED vars

\* task_add_via_api: response and task table after the request
task_add_result(d) ==
    LET start_date == strptime_date(d.start_date)
        duration_days == py_int(d.duration_days)
    IN  IF start_date.ok /\ duration_days.ok
        THEN [status |-> 200, success |-> TRUE,
              tasks |-> Put(tasks, NextId(DOMAIN tasks),
                            new_task(d.project_id, start_date.ord, duration_days.val))]
        ELSE [status |-> 500, success |-> FALSE, tasks |-> tasks]

task_add_via_api(d) ==
    /\ tasks' = task_add_result(d).tasks
    /\ UNCHANGED <<projects, links, files>>

\* add_new_task_page (POST): response and task table after the request
add_new_task_result(project_id, form) ==
    IF project_id \notin projects
    THEN [status |-> 404, flash |-> "", tasks |-> tasks]
    ELSE IF ~form.task_name \/ form.start_date = NoDateText \/ ~truthy(form.duration_days)
    THEN [status |-> 302, flash |-> "Missing required fields", tasks |-> tasks]
    ELSE LET start_date == strptime_date(form.start_date)
             duration_days == py_int(form.duration_days)
         IN  IF start_date.ok /\ duration_days.ok
             THEN [status |-> 302, flash |-> "added successfully",
                   tasks |-> Put(tasks, NextId(DOMAIN tasks),
                                 new_task(project_id, start_date.ord, duration_days.val))]
             ELSE [status |-> 302, flash |-> "Invalid Date or Duration format",
                   tasks |-> tasks]

add_new_task_page(project_id, form) ==
    /\ tasks' = add_new_task_result(project_id, form).tasks
    /\ UNCHANGED <<projects, links, files>>

\* [mutant of task_update_result] a save naming the task among its own
\* predecessors is refused
task_update_result_no_self_predecessor(d) ==
    IF d.task_id \in DOMAIN tasks /\ d.task_id \notin d.predecessor_ids
    THEN LET start_date == strptime_date(d.start_date)
             duration_days == py_int(d.duration_days)
         IN  IF start_date.ok /\ duration_days.ok
             THEN [status |-> 200, success |-> TRUE,
                   tasks |-> [tasks EXCEPT ![d.task_id].start_date = start_date.ord,
                                           ![d.task_id].duration_days = duration_days.val]]
             ELSE [status |-> 500, success |-> FALSE, tasks |-> tasks]
    ELSE [status |-> 200, success |-> FALSE, tasks |-> tasks]

\* task_update_via_api: response and task table after the request
task_update_result(d) ==
    IF d.task_id \in DOMAIN tasks
    THEN LET start_date == strptime_date(d.start_date)
             duration_days == py_int(d.duration_days)
         IN  IF start_date.ok /\ duration_days.ok
             THEN [status |-> 200, success |-> TRUE,
                   tasks |-> [tasks EXCEPT ![d.task_id].start_date = start_date.ord,
                                           ![d.task_id].duration_days = duration_days.val]]
             ELSE [status |-> 500, success |-> FALSE, tasks |-> tasks]
    ELSE [status |-> 200, success |-> FALSE, tasks |-> tasks]

task_update_via_api(d) ==
    /\ tasks' = task_update_result(d).tasks
    /\ UNCHANGED <<projects, links, files>>

\* db.session.delete(t) with cascade="all, delete-orphan" on Task.links, Task.files
task_delete_via_api(task_id) ==
    IF task_id \in DOMAIN tasks
    THEN /\ tasks' = Without(tasks, {task_id})
         /\ links' = Without(links, {l \in DOMAIN links : links[l].task_id = task_id})
         /\ files' = Without(files, {f \in DOMAIN files : files[f].task_id = task_id})
         /\ UNCHANGED projects
    ELSE UNCHANGED vars

\* [mutant of task_complete_via_api] completing a task also closes its duration
task_complete_closing_duration(task_id) ==
    IF task_id \in DOMAIN tasks
    THEN /\ tasks' = [tasks EXCEPT ![task_id].is_completed = ~tasks[task_id].is_completed,
                                   ![task_id].duration_days = 0]
         /\ UNCHANGED <<projects, links, files>>
    ELSE UNCHANGED vars

task_complete_via_api(task_id) ==
    IF task_id \in DOMAIN tasks
    THEN /\ tasks' = [tasks EXCEPT ![task_id].is_completed = ~tasks[task_id].is_completed]
         /\ UNCHANGED <<projects, links, files>>
    ELSE UNCHANGED vars

\* add_task_link: the task id is stored as given (SQLite enforces no foreign key)
add_task_link(d) ==
    /\ links' = Put(links, NextId(DOMAIN links), [task_id |-> d.task_id])
    /\ UNCHANGED <<projects, tasks, files>>

delete_task_link(link_id) ==
    /\ links' = Without(links, {link_id})
    /\ UNCHANGED <<projects, tasks, files>>

\* upload_task_file; tid = 0 stands for a form without task_id (the insert then
\* fails on the NOT NULL column)
upload_task_file(tid) ==
    /\ files' = IF tid = 0 THEN files
                ELSE Put(files, NextId(DOMAIN files), [task_id |-> tid])
    /\ UNCHANGED <<projects, tasks, links>>

delete_task_file(file_id) ==
    /\ files' = Without(files, {file_id})
    /\ UNCHANGED <<projects, tasks, links>>

\* admin_scrub_api: Task.query.delete() and Project.query.delete() are bulk
\* DELETE statements; no ORM cascade runs, task_link and task_file keep their rows
admin_scrub_api ==
    /\ tasks' = EmptyTable
    /\ projects' = {}
    /\ UNCHANGED <<links, files>>

\* [mutant of api_gantt_data_request] the read stores the duration it clamped
api_gantt_data_request_storing_clamp(source_type, source_id) ==
    /\ tasks' = [t \in DOMAIN tasks |->
                    IF /\ source_type = "project"
                       /\ tasks[t].project_id = source_id
                       /\ tasks[t].duration_days <= 0
                    THEN [tasks[t] EXCEPT !.duration_days = 1]
                    ELSE tasks[t]]
    /\ UNCHANGED <<projects, links, files>>

\* the read handlers change nothing
api_gantt_data_request(source_type, source_id) ==
    /\ api_gantt_data(source_type, source_id) # {}
    /\ UNCHANGED vars

export_gantt_csv_request(source_type, source_id) ==
    /\ export_gantt_csv(source_type, source_id) # {}
    /\ UNCHANGED vars

export_gantt_xml_request(source_type, source_id) ==
    /\ export_gantt_xml(source_type, source_id) # {}
    /\ UNCHANGED vars

\* get_client_projects_api: the completion_percent it reports for each project
\* (the client a project belongs to is not modelled)
get_client_projects_api == [p \in projects |-> completion_percentage(p)]

get_client_projects_api_request ==
    /\ DOMAIN get_client_projects_api = projects
    /\ UNCHANGED vars

-----------------------------------------------------------------------------
(* Sessions, users, groups and the backup scheduler.                       *)

\* [mutant of admin_required] the guard lets every logged-in session through
admin_required_any_role(view) ==
    IF "user_id" \notin DOMAIN session THEN UNCHANGED vars ELSE view

\* login_required: without 'user_id' in the session the request is redirected
\* to the login page and the view is not called
login_required(view) ==
    IF "user_id" \notin DOMAIN session THEN UNCHANGED vars ELSE view

\* admin_required: redirected without 'user_id' in the session, refused with
\* 403 when the session's role is not 'admin'; the view is not called
admin_required(view) ==
    IF "user_id" \notin DOMAIN session THEN UNCHANGED vars
    ELSE IF session.role # "admin" THEN UNCHANGED vars
    ELSE view

\* the session a successful login of user u writes
session_of(u) ==
    [user_id |-> u, username |-> users[u].username, role |-> users[u].role]

\* the users the login query can return for the text in the username field
\* (.first() of the users whose username or email is that text)
login_candidates(form) ==
    {u \in DOMAIN users :
        users[u].username = form.username \/ users[u].email = form.username}

\* login (POST): the session is rewritten only when a user is found and the
\* password matches the user's hash; else 'Invalid credentials' is flashed
login(form) ==
    /\ IF login_candidates(form) = {} THEN session' = session
       ELSE \E u \in login_candidates(form) :
               session' = IF check_password_hash(users[u].password_hash, form.password)
                          THEN session_of(u)
                          ELSE session
    /\ UNCHANGED <<projects, tasks, links, files, users, groups, jobs, calls>>

\* logout: session.clear()
logout ==
    /\ session' = NoSession
    /\ UNCHANGED <<projects, tasks, links, files, users, groups, jobs, calls>>

\* add_user_api: response and user table after the request ("" stands for a
\* field that is absent or empty)
add_user_result(data) ==
    LET target_username ==
            IF data.role = "admin" /\ data.username # "" THEN data.username
            ELSE data.email
    IN  IF data.email = "" \/ data.password = ""
        THEN [success |-> FALSE, users |-> users]
        ELSE IF \E u \in DOMAIN users :
                    users[u].username = target_username \/ users[u].email = data.email
        THEN [success |-> FALSE, users |-> users]
        ELSE [success |-> TRUE,
              users |-> Put(users, NextId(DOMAIN users),
                            [username |-> target_username, email |-> data.email,
                             password_hash |-> generate_password_hash(data.password),
                             role |-> data.role])]

add_user_api(data) ==
    /\ users' = add_user_result(data).users
    /\ UNCHANGED <<projects, tasks, links, files, groups, session, jobs, calls>>

\* uid == 1 for the JSON value uid: true of the number 1 (1 or 1.0), false of
\* every other number and of every text
is_root_id(uid) ==
    \/ uid.kind = "int" /\ uid.val = 1
    \/ uid.kind = "float" /\ uid.val = 10

\* db.session.get(User, uid): the id is compared in SQL, where the INTEGER
\* column makes SQLite read a numeric text as the number it spells; the result
\* is the set of ids of the row found (empty for None)
get_user(uid) ==
    LET n == CASE uid.kind = "int" -> [ok |-> TRUE, val |-> uid.val]
               [] uid.kind = "float" -> [ok |-> uid.val % 10 = 0, val |-> uid.val \div 10]
               [] uid.kind = "str" -> int_of_text(uid.chars)
    IN  IF n.ok THEN {n.val} \cap DOMAIN users ELSE {}

\* delete_user_api: response, user table and group memberships after the
\* request; db.session.delete(None) raises when no user is found
delete_user_result(uid) ==
    IF is_root_id(uid)
    THEN [status |-> 200, success |-> FALSE, users |-> users, groups |-> groups]
    ELSE IF get_user(uid) = {}
    THEN [status |-> 500, success |-> FALSE, users |-> users, groups |-> groups]
    ELSE [status |-> 200, success |-> TRUE,
          users |-> Without(users, get_user(uid)),
          groups |-> [g \in DOMAIN groups |->
                        [groups[g] EXCEPT !.user_ids = @ \ get_user(uid)]]]

delete_user_api(uid) ==
    /\ users' = delete_user_result(uid).users
    /\ groups' = delete_user_result(uid).groups
    /\ UNCHANGED <<projects, tasks, links, files, session, jobs, calls>>

\* save_group_api: response and group table after the request (id 0 stands
\* for no id); the unique name column fails the commit of a rename to the name
\* of another group
save_group_result(data) ==
    IF data.name = "" THEN [status |-> 400, groups |-> groups]
    ELSE IF data.id # 0 /\ data.id \notin DOMAIN groups
    THEN [status |-> 404, groups |-> groups]
    ELSE IF data.id = 0 /\ \E g \in DOMAIN groups : groups[g].name = data.name
    THEN [status |-> 400, groups |-> groups]
    ELSE LET gid == IF data.id # 0 THEN data.id ELSE NextId(DOMAIN groups)
             members == IF data.has_user_ids THEN data.user_ids \cap DOMAIN users
                        ELSE IF data.id # 0 THEN groups[gid].user_ids
                        ELSE {}
         IN  IF \E g \in DOMAIN groups \ {gid} : groups[g].name = data.name
             THEN [status |-> 500, groups |-> groups]
             ELSE [status |-> 200,
                   groups |-> Put(groups, gid, [name |-> data.name, user_ids |-> members])]

save_group_api(data) ==
    /\ groups' = save_group_result(data).groups
    /\ UNCHANGED <<projects, tasks, links, files, users, session, jobs, calls>>

delete_group_api(gid) ==
    /\ groups' = Without(groups, {gid})
    /\ UNCHANGED <<projects, tasks, links, files, users, session, jobs, calls>>

\* the keyword arguments an interval trigger takes for its period
trigger_units == {"weeks", "days", "hours", "minutes", "seconds"}

\* scheduler.get_job('backup_db_job')
get_job(store) == "backup_db_job" \in DOMAIN store

\* scheduler.remove_job('backup_db_job'): JobLookupError when there is no such job
remove_job(store) ==
    [ok |-> "backup_db_job" \in DOMAIN store, jobs |-> Without(store, {"backup_db_job"})]

\* scheduler.add_job(id='backup_db_job', ..., trigger='interval', **{unit: interval}):
\* TypeError when the trigger takes no such argument, ConflictingIdError when
\* the store has a job with the id
add_job(store, unit, interval) ==
    IF unit \notin trigger_units \/ "backup_db_job" \in DOMAIN store
    THEN [ok |-> FALSE, jobs |-> store]
    ELSE [ok |-> TRUE,
          jobs |-> [j \in {"backup_db_job"} |-> [unit |-> unit, interval |-> interval]]]

\* admin_schedule_api run from its first line to its last with no other call
\* in between: response and job store after the request
admin_schedule_result(data) ==
    LET interval == py_int(data.interval)
        removed == IF get_job(jobs) THEN remove_job(jobs).jobs ELSE jobs
        added == add_job(removed, data.unit, interval.val)
    IN  IF ~interval.ok THEN [status |-> 500, jobs |-> jobs]
        ELSE IF ~added.ok THEN [status |-> 500, jobs |-> removed]
        ELSE [status |-> 200, jobs |-> added.jobs]

admin_schedule_api(data) ==
    /\ jobs' = admin_schedule_result(data).jobs
    /\ UNCHANGED <<projects, tasks, links, files, users, groups, session, calls>>

\* admin_restore_api: without a file nothing happens; else the database file is
\* replaced by the uploaded one, here a backup taken right after init_db()
admin_restore_api(has_file) ==
    /\ IF has_file
       THEN /\ projects' = {}
            /\ tasks' = EmptyTable
            /\ links' = EmptyTable
            /\ files' = EmptyTable
            /\ users' = [u \in {NextId({})} |-> root_admin]
            /\ groups' = default_groups
       ELSE UNCHANGED <<projects, tasks, links, files, users, groups>>
    /\ UNCHANGED <<session, jobs, calls>>

\* the admin_schedule_api calls that have returned or raised
FinishedCalls == {c \in DOMAIN calls : calls[c].pc \in {"done", "failed"}}

\* a call that returns or raises now is the next in the order of completion
finish(c, pc) ==
    [calls EXCEPT ![c].pc = pc, ![c].completed = Cardinality(FinishedCalls) + 1]

\* admin_schedule_api, call c, the guard and the parsing of the request:
\* int(data.get('interval', 24)) raises on a text that is no integer
schedule_begin(c, data) ==
    /\ calls[c].pc = "idle"
    /\ admin_required(
          /\ calls' = IF py_int(data.interval).ok
                      THEN [calls EXCEPT ![c] = [pc |-> "get_job", unit |-> data.unit,
                                                 interval |-> py_int(data.interval).val,
                                                 completed |-> 0]]
                      ELSE finish(c, "failed")
          /\ UNCHANGED <<projects, tasks, links, files, users, groups, session, jobs>>)

\* call c: if scheduler.get_job('backup_db_job')
schedule_get_job(c) ==
    /\ calls[c].pc = "get_job"
    /\ calls' = [calls EXCEPT ![c].pc = IF get_job(jobs) THEN "remove_job" ELSE "add_job"]
    /\ UNCHANGED <<projects, tasks, links, files, users, groups, session, jobs>>

\* call c: scheduler.remove_job('backup_db_job')
schedule_remove_job(c) ==
    /\ calls[c].pc = "remove_job"
    /\ jobs' = remove_job(jobs).jobs
    /\ calls' = IF remove_job(jobs).ok THEN [calls EXCEPT ![c].pc = "add_job"]
                ELSE finish(c, "failed")
    /\ UNCHANGED <<projects, tasks, links, files, users, groups, session>>

\* call c: scheduler.add_job(...) and the response
schedule_add_job(c) ==
    /\ calls[c].pc = "add_job"
    /\ jobs' = add_job(jobs, calls[c].unit, calls[c].interval).jobs
    /\ calls' = IF add_job(jobs, calls[c].unit, calls[c].interval).ok
                THEN finish(c, "done")
                ELSE finish(c, "failed")
    /\ UNCHANGED <<projects, tasks, links, files, users, groups, session>>

-----------------------------------------------------------------------------
(* Request inputs.                                                         *)

Friday == [y |-> 2024, m |-> 1, d |-> 5]
Monday == [y |-> 2024, m |-> 1, d |-> 8]
NoSuchDay == [y |-> 2024, m |-> 2, d |-> 30]

SourceTypes == {"project", "client"}

\* the predecessor sets a task save may name for task t (the handlers read no
\* such field)
PredecessorInputs(t) == {{}, {t}, TaskIds \ {t}, TaskIds}

PlainDates == {Monday}
PlainDurations == {JInt(1)}
SpecDurations == {JInt(1), JInt(2)}

SchedProjects == {1}
SchedDates == {Friday, Monday, NoSuchDay}
SchedDurations ==
    {JInt(0 - 1), JInt(0), JInt(1), JInt(date_max_ordinal), JFloat(15),
     JStr(<<"a", "b", "c">>)}
FormDurations ==
    {JStr(<<"1">>), JStr(<<"0">>), JStr(<<"-", "1">>), JStr(<<"1", ".", "5">>),
     JStr(<<>>)}

AddRequests(P, D, U) ==
    [project_id : P, start_date : D, duration_days : U, predecessor_ids : {{}, TaskIds}]

UpdateRequests(D, U) ==
    UNION {[task_id : {t}, start_date : D, duration_days : U,
            predecessor_ids : PredecessorInputs(t)] : t \in TaskIds}

Forms(D, U) == [task_name : BOOLEAN, start_date : D, duration_days : U]

\* the model keeps at most MaxTasks task rows
FitsTasks(table) == DOMAIN table \subseteq TaskIds

LoginForms == [username : {"Admin", "u@x", "bob"}, password : {"password", "pw"}]

UserAddInputs ==
    [email : {"", "u@x"}, password : {"", "pw"}, role : {"user", "admin"},
     username : {"", "bob"}]

UserDeleteInputs ==
    {JInt(u) : u \in UserIds} \cup {JFloat(10), JStr(<<"1">>), JStr(<<"x">>)}

GroupSaveInputs ==
    [id : {0, MaxGroups}, name : {"", "TSC", "QA"}, has_user_ids : BOOLEAN,
     user_ids : {{1, MaxUsers}}]

GroupDeleteInputs == {MaxGroups, MaxGroups + 1}

ScheduleInputs == [interval : {JInt(24), JStr(<<"x">>)}, unit : {"hours", "fortnights"}]

\* well-formed schedule requests
PlainScheduleInputs == [interval : {JInt(1), JInt(24)}, unit : {"hours", "minutes"}]

\* the model keeps at most MaxUsers user rows and MaxGroups group rows
FitsUsers(table) == DOMAIN table \subseteq UserIds
FitsGroups(table) == DOMAIN table \subseteq GroupIds

\* the session of the root admin after login
InitLoggedIn ==
    /\ projects = {}
    /\ tasks = EmptyTable
    /\ links = EmptyTable
    /\ files = EmptyTable
    /\ users = [u \in {NextId({})} |-> root_admin]
    /\ groups = default_groups
    /\ session = [user_id |-> NextId({}), username |-> root_admin.username,
                  role |-> root_admin.role]
    /\ jobs = NoJobs
    /\ calls = [c \in CallIds |-> NoCall]

-----------------------------------------------------------------------------
(* Spec: projects and tasks with one start date and two durations.         *)

Next ==
    \/ \E id \in {0} \cup ProjectIds :
          /\ id = 0 => NextId(projects) \in ProjectIds
          /\ api_save_project([id |-> id])
          /\ UNCHANGED adminVars
    \/ \E p \in ProjectIds : delete_project_api(p) /\ UNCHANGED adminVars
    \/ \E d \in AddRequests(ProjectIds, PlainDates, SpecDurations) :
          /\ FitsTasks(task_add_result(d).tasks)
          /\ task_add_via_api(d)
          /\ UNCHANGED adminVars
    \/ \E p \in ProjectIds, form \in Forms(PlainDates, {JStr(<<"1">>)}) :
          /\ FitsTasks(add_new_task_result(p, form).tasks)
          /\ add_new_task_page(p, form)
          /\ UNCHANGED adminVars
    \/ \E d \in UpdateRequests(PlainDates, SpecDurations) :
          /\ task_update_via_api(d)
          /\ UNCHANGED adminVars
    \/ \E t \in TaskIds : task_delete_via_api(t) /\ UNCHANGED adminVars
    \/ \E t \in TaskIds : task_complete_via_api(t) /\ UNCHANGED adminVars
    \/ admin_scrub_api /\ UNCHANGED adminVars
    \/ get_client_projects_api_request /\ UNCHANGED adminVars

Spec == InitLoggedIn /\ [][Next]_vars

-----------------------------------------------------------------------------
(* SpecSched: the tasks of project 1 with varying start dates and          *)
(* durations, and the timeline and export reads.                           *)

NextSched ==
    \/ /\ NextId(projects) \in SchedProjects
       /\ api_save_project([id |-> 0])
       /\ UNCHANGED adminVars
    \/ \E p \in SchedProjects : delete_project_api(p) /\ UNCHANGED adminVars
    \/ \E d \in AddRequests(SchedProjects, SchedDates, SchedDurations) :
          /\ FitsTasks(task_add_result(d).tasks)
          /\ task_add_via_api(d)
          /\ UNCHANGED adminVars
    \/ \E p \in SchedProjects, form \in Forms({NoDateText} \cup SchedDates, FormDurations) :
          /\ FitsTasks(add_new_task_result(p, form).tasks)
          /\ add_new_task_page(p, form)
          /\ UNCHANGED adminVars
    \/ \E d \in UpdateRequests(SchedDates, SchedDurations) :
          /\ task_update_via_api(d)
          /\ UNCHANGED adminVars
    \/ \E t \in TaskIds : task_delete_via_api(t) /\ UNCHANGED adminVars
    \/ \E t \in TaskIds : task_complete_via_api(t) /\ UNCHANGED adminVars
    \/ \E st \in SourceTypes, id \in ProjectIds :
          /\ api_gantt_data_request(st, id)
          /\ UNCHANGED adminVars
    \/ \E st \in SourceTypes, id \in ProjectIds :
          /\ export_gantt_csv_request(st, id)
          /\ UNCHANGED adminVars
    \/ \E st \in SourceTypes, id \in ProjectIds :
          /\ export_gantt_xml_request(st, id)
          /\ UNCHANGED adminVars
    \/ get_client_projects_api_request /\ UNCHANGED adminVars

SpecSched == InitLoggedIn /\ [][NextSched]_vars

-----------------------------------------------------------------------------
(* SpecCascade: projects, tasks, links and files, created and deleted.     *)

NextCascade ==
    \/ /\ NextId(projects) \in ProjectIds
       /\ api_save_project([id |-> 0])
       /\ UNCHANGED adminVars
    \/ \E p \in ProjectIds : delete_project_api(p) /\ UNCHANGED adminVars
    \/ \E d \in AddRequests(ProjectIds, PlainDates, PlainDurations) :
          /\ FitsTasks(task_add_result(d).tasks)
          /\ task_add_via_api(d)
          /\ UNCHANGED adminVars
    \/ \E t \in TaskIds : task_delete_via_api(t) /\ UNCHANGED adminVars
    \/ \E t \in TaskIds :
          /\ NextId(DOMAIN links) \in LinkIds
          /\ add_task_link([task_id |-> t])
          /\ UNCHANGED adminVars
    \/ \E l \in LinkIds : delete_task_link(l) /\ UNCHANGED adminVars
    \/ \E t \in {0} \cup TaskIds :
          /\ NextId(DOMAIN files) \in FileIds
          /\ upload_task_file(t)
          /\ UNCHANGED adminVars
    \/ \E f \in FileIds : delete_task_file(f) /\ UNCHANGED adminVars
    \/ admin_scrub_api /\ UNCHANGED adminVars

SpecCascade == InitLoggedIn /\ [][NextCascade]_vars

-----------------------------------------------------------------------------
(* SpecProgress: one project whose tasks are added, completed in the order *)
(* of their ids, reopened in the reverse order and deleted from the last,  *)
(* up to MaxTotal tasks.                                                   *)

Completed == {t \in DOMAIN tasks : tasks[t].is_completed}

NextProgress ==
    \/ /\ projects = {}
       /\ api_save_project([id |-> 0])
       /\ UNCHANGED adminVars
    \/ \E d \in AddRequests({1}, PlainDates, PlainDurations) :
          /\ d.predecessor_ids = {}
          /\ projects # {}
          /\ NextId(DOMAIN tasks) <= MaxTotal
          /\ task_add_via_api(d)
          /\ UNCHANGED adminVars
    \/ /\ tasks # EmptyTable
       /\ task_delete_via_api(Max(DOMAIN tasks))
       /\ UNCHANGED adminVars
    \/ /\ DOMAIN tasks \ Completed # {}
       /\ task_complete_via_api(NextId(Completed))
       /\ UNCHANGED adminVars
    \/ /\ Completed # {}
       /\ task_complete_via_api(Max(Completed))
       /\ UNCHANGED adminVars
    \/ get_client_projects_api_request /\ UNCHANGED adminVars

SpecProgress == InitLoggedIn /\ [][NextProgress]_vars

-----------------------------------------------------------------------------
(* SpecAdmin: login, logout, and the guarded handlers on users, groups,     *)
(* the backup schedule, restore and scrub, next to project and task        *)
(* creation by any logged-in user.                                         *)

NextAdmin ==
    \/ \E form \in LoginForms : login(form)
    \/ logout
    \/ /\ NextId(projects) \in ProjectIds
       /\ login_required(api_save_project([id |-> 0]) /\ UNCHANGED adminVars)
    \/ \E d \in AddRequests({1}, PlainDates, PlainDurations) :
          /\ d.predecessor_ids = {}
          /\ FitsTasks(task_add_result(d).tasks)
          /\ login_required(task_add_via_api(d) /\ UNCHANGED adminVars)
    \/ \E data \in UserAddInputs :
          /\ FitsUsers(add_user_result(data).users)
          /\ admin_required(add_user_api(data))
    \/ \E uid \in UserDeleteInputs : admin_required(delete_user_api(uid))
    \/ \E data \in GroupSaveInputs :
          /\ FitsGroups(save_group_result(data).groups)
          /\ admin_required(save_group_api(data))
    \/ \E gid \in GroupDeleteInputs : admin_required(delete_group_api(gid))
    \/ \E data \in ScheduleInputs : admin_required(admin_schedule_api(data))
    \/ \E has_file \in BOOLEAN : admin_required(admin_restore_api(has_file))
    \/ admin_required(admin_scrub_api /\ UNCHANGED adminVars)

SpecAdmin == Init /\ [][NextAdmin]_vars

-----------------------------------------------------------------------------
(* SpecSchedule: MaxCalls admin_schedule_api calls, served by the threads   *)
(* of the development server, whose steps on the scheduler interleave.     *)

NextSchedule ==
    \/ \E form \in LoginForms : login(form)
    \/ logout
    \/ \E c \in CallIds, data \in PlainScheduleInputs : schedule_begin(c, data)
    \/ \E c \in CallIds : schedule_get_job(c)
    \/ \E c \in CallIds : schedule_remove_job(c)
    \/ \E c \in CallIds : schedule_add_job(c)

SpecSchedule == Init /\ [][NextSchedule]_vars

-----------------------------------------------------------------------------
(* Claims.                                                                 *)

TotalOf(p) == Cardinality(project_tasks(p))
CompletedOf(p) == Cardinality({t \in project_tasks(p) : tasks[t].is_completed})

\* C1: for every project with n tasks of which c are completed, the reported
\* progress is floor(100 * c / n) when n > 0, and 0 when n = 0.
\* (Under SpecProgress: refuted at n = 50, c = 29, where 29 / 50 * 100 is
\* 57.99999999999999 in binary64 and int() gives 57.)
C1_ProgressIsFloor ==
    \A p \in projects :
        get_client_projects_api[p] =
            IF TotalOf(p) = 0 THEN 0 ELSE (100 * CompletedOf(p)) \div TotalOf(p)

\* C6: the progress read for a project lies in 0..100 and is computed from the
\* current completion flags of the project's current tasks: 0 for a project
\* with no task or no completed task, 100 when every task is completed, and
\* otherwise the percentage 100 * c / n cut to an integer (never above it, and
\* less than 2 below it).
C6_ProgressDerivedInRange ==
    \A p \in projects :
        LET pct == get_client_projects_api[p]
            n == TotalOf(p)
            c == CompletedOf(p)
        IN  /\ pct \in 0..100
            /\ c = 0 => pct = 0
            /\ (n > 0 /\ c = n) => pct = 100
            /\ n > 0 => (pct * n <= 100 * c /\ 100 * c < (pct + 2) * n)

\* C6 witness: a project with two tasks, one of them completed, reads 50 while
\* another project with no task reads 0
C6_Witness ==
    \E p, q \in projects :
        /\ p # q
        /\ TotalOf(p) = 2 /\ CompletedOf(p) = 1
        /\ get_client_projects_api[p] = 50
        /\ TotalOf(q) = 0 /\ get_client_projects_api[q] = 0

LinksOf(T) == {l \in DOMAIN links : links[l].task_id \in T}
FilesOf(T) == {f \in DOMAIN files : files[f].task_id \in T}

GanttRows == UNION {{r.tasks[i] : i \in DOMAIN r.tasks} :
                       r \in UNION {api_gantt_data("project", p) : p \in projects}}
CsvRows == UNION {{r.rows[i] : i \in DOMAIN r.rows} :
                     r \in UNION {export_gantt_csv("project", p) : p \in projects}}

\* C2 (as claimed): for every task with start date S and duration D >= 1 the end
\* date of its timeline row and of its export row is addBusinessDays(S, D), the
\* D-th business day after S, and never falls on a Saturday or Sunday.
C2_EndIsBusinessDayEnd ==
    /\ \A r \in GanttRows :
          tasks[r.id].duration_days >= 1 =>
              /\ r.end = addBusinessDays(r.start, tasks[r.id].duration_days)
              /\ weekday(r.end) \notin {5, 6}
    /\ \A r \in CsvRows :
          r.duration >= 1 =>
              /\ r.end = addBusinessDays(r.start, r.duration)
              /\ weekday(r.end) \notin {5, 6}

\* C2 (amended): whenever the timeline or the export produces a row for a task
\* with start date S and stored duration D, its end date is S plus calendar
\* days, weekends counted: S + D days in the export row, and S + D days (S + 1
\* day when D <= 0) in the timeline row.
C2_EndIsCalendarDayEnd ==
    /\ \A r \in GanttRows :
          /\ r.start = tasks[r.id].start_date
          /\ r.end - r.start =
                IF tasks[r.id].duration_days > 0 THEN tasks[r.id].duration_days ELSE 1
    /\ \A r \in CsvRows :
          /\ r.start = tasks[r.id].start_date
          /\ r.end - r.start = tasks[r.id].duration_days

\* C2 witness: a task starting on a Friday with duration 1 whose timeline row
\* and export row both end on the Saturday
C2_Witness ==
    \E r \in GanttRows, s \in CsvRows :
        /\ r.id = s.id
        /\ weekday(r.start) = 4
        /\ tasks[r.id].duration_days = 1
        /\ weekday(r.end) = 5
        /\ weekday(s.end) = 5

\* C3: every stored task has duration >= 1, and the end date derived from a
\* stored task (timeline row and CSV export) is never earlier than its start date.
C3_DurationAtLeastOne ==
    /\ \A t \in DOMAIN tasks : tasks[t].duration_days >= 1
    /\ \A r \in GanttRows : r.end >= r.start
    /\ \A r \in CsvRows : r.end >= r.start

\* a duration that is non-positive or not an integer
InvalidDuration(x) ==
    \/ x.kind = "float"
    \/ ~py_int(x).ok
    \/ py_int(x).val <= 0

\* C4: a task create or update request whose duration is non-positive or not
\* an integer is rejected and leaves the task table as it was.
C4_InvalidDurationRejected ==
    [][ /\ \A d \in AddRequests(SchedProjects, SchedDates, SchedDurations) :
              (InvalidDuration(d.duration_days) /\ task_add_via_api(d)) =>
                  /\ ~task_add_result(d).success
                  /\ tasks' = tasks
        /\ \A d \in UpdateRequests(SchedDates, SchedDurations) :
              (InvalidDuration(d.duration_days) /\ task_update_via_api(d)) =>
                  /\ ~task_update_result(d).success
                  /\ tasks' = tasks
        /\ \A p \in SchedProjects, form \in Forms(SchedDates, FormDurations) :
              (InvalidDuration(form.duration_days) /\ add_new_task_page(p, form)) =>
                  tasks' = tasks
      ]_vars

\* the task saves that name the saved task among its own predecessors, with a
\* well-formed start date and duration
SelfPredecessorSaves ==
    {d \in UpdateRequests(SchedDates, SchedDurations) :
        /\ d.task_id \in DOMAIN tasks
        /\ d.task_id \in d.predecessor_ids
        /\ strptime_date(d.start_date).ok
        /\ py_int(d.duration_days).ok}

\* C5 (as claimed): a task save whose predecessor set contains the task itself
\* is rejected.
C5_SelfPredecessorRejected ==
    \A d \in SelfPredecessorSaves : ~task_update_result(d).success

\* C5 (amended): no dependency edge is ever stored, so the dependency relation
\* is empty and acyclic in every reachable state: every timeline row carries no
\* dependency, and a task save naming the task itself among its predecessors is
\* accepted, the predecessor set being discarded (the save changes the task's
\* start date and duration and nothing else).
C5_NoDependencyStored ==
    /\ \A r \in GanttRows : r.dependencies.none /\ r.dependencies.ids = <<>>
    /\ \A d \in SelfPredecessorSaves :
          LET res == task_update_result(d)
          IN  /\ res.success
              /\ DOMAIN res.tasks = DOMAIN tasks
              /\ \A t \in DOMAIN tasks :
                    /\ res.tasks[t].project_id = tasks[t].project_id
                    /\ res.tasks[t].is_completed = tasks[t].is_completed
                    /\ t # d.task_id => res.tasks[t] = tasks[t]

\* C5 witness: a save naming the task itself as predecessor that succeeds and
\* moves the task's start date, the task's timeline row still without dependency
C5_Witness ==
    \E d \in SelfPredecessorSaves :
        /\ task_update_result(d).success
        /\ task_update_result(d).tasks[d.task_id].start_date
              # tasks[d.task_id].start_date
        /\ \E r \in GanttRows : r.id = d.task_id /\ r.dependencies.none

\* C8: toggling a task's completion flag changes only that flag: the start
\* date, the duration and the derived end dates (timeline and export) of that
\* task and of every other task are the same before and after the toggle.
C8_ToggleKeepsDates ==
    [][ \A t \in TaskIds :
           (t \in DOMAIN tasks /\ task_complete_via_api(t)) =>
               /\ DOMAIN tasks' = DOMAIN tasks
               /\ tasks'[t].is_completed = ~tasks[t].is_completed
               /\ \A u \in DOMAIN tasks :
                     /\ tasks'[u].start_date = tasks[u].start_date
                     /\ tasks'[u].duration_days = tasks[u].duration_days
                     /\ tasks'[u].project_id = tasks[u].project_id
                     /\ gantt_row(u)'.ok = gantt_row(u).ok
                     /\ gantt_row(u)'.row.end = gantt_row(u).row.end
                     /\ csv_row(u)'.ok = csv_row(u).ok
                     /\ csv_row(u)'.row.end = csv_row(u).row.end
                     /\ u # t => tasks'[u] = tasks[u]
      ]_vars

\* C8 witness: two tasks of one project with different start dates, one
\* completed and one not, both with a timeline row
C8_Witness ==
    \E r, s \in GanttRows :
        /\ tasks[r.id].project_id = tasks[s.id].project_id
        /\ r.start # s.start
        /\ r.percent = 100
        /\ s.percent = 0

\* C9 (as claimed): timeline rows come in creation order: of two tasks of one
\* project the one created first (the smaller id) comes first.
C9_RowsInCreationOrder ==
    \A p \in projects : \A r \in api_gantt_data("project", p) :
        \A i, j \in DOMAIN r.tasks : i < j => r.tasks[i].id < r.tasks[j].id

\* C9 (amended): timeline rows come in ascending order of start date: every
\* task of the project has exactly one row, and of two tasks of one project
\* with different start dates the one that starts earlier comes first,
\* whichever was created first.
C9_RowsInStartDateOrder ==
    \A p \in projects : \A r \in api_gantt_data("project", p) :
        r.status = 200 =>
            /\ {r.tasks[i].id : i \in DOMAIN r.tasks} = project_tasks(p)
            /\ Len(r.tasks) = Cardinality(project_tasks(p))
            /\ \A i, j \in DOMAIN r.tasks :
                  tasks[r.tasks[i].id].start_date < tasks[r.tasks[j].id].start_date
                      => i < j

\* C9 witness: the task created second starts earlier and has the first row
C9_Witness ==
    \E p \in projects : \E r \in api_gantt_data("project", p) :
        /\ r.status = 200
        /\ Len(r.tasks) = 2
        /\ r.tasks[1].id > r.tasks[2].id
        /\ r.tasks[1].start < r.tasks[2].start

\* C10: progress aggregation and timeline projection never fail: for every
\* scope kind and every id (also of no existing node, also of a node with no
\* task) the read returns a result instead of raising.
C10_ReadsNeverFail ==
    /\ \A st \in SourceTypes, id \in 0..(MaxProjects + 1) :
          /\ \A r \in api_gantt_data(st, id) : r.status = 200
          /\ \A r \in export_gantt_csv(st, id) : r.status = 200
    /\ \A p \in projects : get_client_projects_api[p] \in 0..100

\* a step of one of the read handlers
ReadStep ==
    \/ \E st \in SourceTypes, id \in ProjectIds : api_gantt_data_request(st, id)
    \/ \E st \in SourceTypes, id \in ProjectIds : export_gantt_csv_request(st, id)
    \/ \E st \in SourceTypes, id \in ProjectIds : export_gantt_xml_request(st, id)
    \/ get_client_projects_api_request

\* C11: the progress read and the timeline / export reads are read-only: a step
\* of get_client_projects_api (completion_percentage), api_gantt_data,
\* export_gantt_csv or export_gantt_xml leaves every stored project, task, link
\* and file as it was, so a second read right after it returns the same: the
\* progress read is computed from the same projects and the same task counts,
\* and the timeline and the two exports give the responses they gave before,
\* for every scope kind and id.
C11_ReadsChangeNothing ==
    [][ ReadStep =>
           /\ projects' = projects
           /\ tasks' = tasks
           /\ links' = links
           /\ files' = files
           /\ \A p \in ProjectIds :
                 /\ (p \in projects') = (p \in projects)
                 /\ TotalOf(p)' = TotalOf(p)
                 /\ CompletedOf(p)' = CompletedOf(p)
           /\ \A st \in SourceTypes, id \in ProjectIds :
                 /\ api_gantt_data(st, id)' = api_gantt_data(st, id)
                 /\ export_gantt_csv(st, id)' = export_gantt_csv(st, id)
                 /\ export_gantt_xml(st, id)' = export_gantt_xml(st, id)
      ]_vars

\* C11 witness: a project with a completed task and a task of duration 0, for
\* which the timeline, both exports and the progress read all answer with data
C11_Witness ==
    \E p \in projects :
        /\ \E t \in project_tasks(p) : tasks[t].duration_days <= 0
        /\ \E t \in project_tasks(p) : tasks[t].is_completed
        /\ \E r \in api_gantt_data("project", p) : r.status = 200 /\ Len(r.tasks) = 2
        /\ \E r \in export_gantt_csv("project", p) : r.status = 200 /\ Len(r.rows) = 2
        /\ \E r \in export_gantt_xml("project", p) : Len(r.rows) = 2
        /\ get_client_projects_api[p] > 0

\* the task saves that name existing other tasks, and not the saved task, as
\* its predecessors, with a well-formed start date and duration
PredecessorSaves ==
    {d \in UpdateRequests(SchedDates, SchedDurations) :
        /\ d.task_id \in DOMAIN tasks
        /\ d.predecessor_ids # {}
        /\ d.predecessor_ids \subseteq DOMAIN tasks \ {d.task_id}
        /\ strptime_date(d.start_date).ok
        /\ py_int(d.duration_days).ok}

\* every timeline read of an existing project that answers with rows has one
\* row per task of the project, each with the 8 fields id, label, resource,
\* start ISO date, end ISO date, null duration, percent (100 for a completed
\* task, else 0) and the dependency field
TimelineRowsShaped ==
    \A p \in projects : \A r \in api_gantt_data("project", p) :
        r.status = 200 =>
            /\ Len(r.tasks) = Cardinality(project_tasks(p))
            /\ {r.tasks[i].id : i \in DOMAIN r.tasks} = project_tasks(p)
            /\ \A i \in DOMAIN r.tasks :
                  LET t == r.tasks[i].id
                      L == gantt_row_list(r.tasks[i])
                  IN  /\ Len(L) = 8
                      /\ int_of_text(L[1]) = [ok |-> TRUE, val |-> t]
                      /\ L[2] = [column |-> "name", task |-> t]
                      /\ L[3] = [column |-> "contractor_type", task |-> t]
                      /\ strptime_date(L[4]) = [ok |-> TRUE, ord |-> tasks[t].start_date]
                      /\ strptime_date(L[5]).ok
                      /\ strptime_date(L[5]).ord > tasks[t].start_date
                      /\ L[6] = PyNone
                      /\ L[7] = IF tasks[t].is_completed THEN 100 ELSE 0

\* C12 (as claimed): one row per task of the fixed 8-field shape, and the
\* dependency field of a task's row is the list of the task's predecessor row
\* ids: once a task is saved with the predecessor set P, its timeline row
\* carries exactly the ids of P in its dependency field.
C12_RowCarriesPredecessors ==
    [][ \A d \in PredecessorSaves :
           task_update_via_api(d) =>
               /\ TimelineRowsShaped'
               /\ \A r \in GanttRows' :
                     r.id = d.task_id =>
                         /\ ~r.dependencies.none
                         /\ {r.dependencies.ids[i] : i \in DOMAIN r.dependencies.ids}
                                = d.predecessor_ids
      ]_vars

\* C12 (amended): one row per task of the project, each of the 8-field shape
\* (id, label, resource, start ISO date, end ISO date, null duration field,
\* percent, dependency field) where percent is 100 if the task is completed and
\* 0 otherwise, and the dependency field is null in every row: no predecessor
\* is stored, whatever predecessor set a task save named.
C12_OneRowPerTaskNoDependency ==
    /\ TimelineRowsShaped
    /\ \A r \in GanttRows : gantt_row_list(r)[8] = PyNone

\* C12 witness: a project with two tasks, one completed and one not, for which
\* a save naming the other task as predecessor is accepted; the timeline has
\* the two rows, with percent 100 and 0 and a null dependency field
C12_Witness ==
    \E p \in projects : \E r \in api_gantt_data("project", p) :
        /\ r.status = 200
        /\ Len(r.tasks) = 2
        /\ {gantt_row_list(r.tasks[i])[7] : i \in 1..2} = {0, 100}
        /\ \A i \in 1..2 : gantt_row_list(r.tasks[i])[8] = PyNone
        /\ \E d \in PredecessorSaves :
              /\ tasks[d.task_id].project_id = p
              /\ task_update_result(d).success

\* C13: referential integrity holds in every reachable state: every stored task
\* refers to an existing project, and every stored task link and task file
\* refers to an existing task.
C13_ReferentialIntegrity ==
    /\ \A t \in DOMAIN tasks : tasks[t].project_id \in projects
    /\ \A l \in DOMAIN links : links[l].task_id \in DOMAIN tasks
    /\ \A f \in DOMAIN files : files[f].task_id \in DOMAIN tasks

\* the session has no logged-in user, or a role other than 'admin'
NotAdminSession == "user_id" \notin DOMAIN session \/ session.role # "admin"

\* a step of one of the admin-guarded handlers: user add, user delete, group
\* save, group delete, backup schedule, restore, scrub
AdminRequest ==
    \/ \E data \in UserAddInputs : admin_required(add_user_api(data))
    \/ \E uid \in UserDeleteInputs : admin_required(delete_user_api(uid))
    \/ \E data \in GroupSaveInputs : admin_required(save_group_api(data))
    \/ \E gid \in GroupDeleteInputs : admin_required(delete_group_api(gid))
    \/ \E data \in ScheduleInputs : admin_required(admin_schedule_api(data))
    \/ \E has_file \in BOOLEAN : admin_required(admin_restore_api(has_file))
    \/ admin_required(admin_scrub_api /\ UNCHANGED adminVars)

\* C14: a request to an admin-guarded handler made by a session with no
\* logged-in user or with a role other than 'admin' changes no stored state
\* (projects, tasks, links, files, users, groups, scheduled jobs); the session
\* comes to hold a user id and role only by a login that found a user whose
\* password hash matches the password given, and then holds that user's id,
\* name and role; and after logout the session holds nothing.
C14_AdminGuardAndSession ==
    [][ /\ (NotAdminSession /\ AdminRequest) =>
              UNCHANGED <<projects, tasks, links, files, users, groups, jobs>>
        /\ (session' # session /\ "user_id" \in DOMAIN session') =>
              \E form \in LoginForms :
                 /\ login(form)
                 /\ \E u \in login_candidates(form) :
                       /\ check_password_hash(users[u].password_hash, form.password)
                       /\ session' = session_of(u)
        /\ logout => DOMAIN session' = {}
      ]_vars

\* C14 witness: a user with the role 'user' has logged in while a project, a
\* task and a scheduled backup job exist for a guarded request to destroy
C14_Witness ==
    /\ "user_id" \in DOMAIN session
    /\ session.role = "user"
    /\ session.user_id \in DOMAIN users
    /\ check_password_hash(users[session.user_id].password_hash, "pw")
    /\ projects # {}
    /\ tasks # EmptyTable
    /\ get_job(jobs)

\* C15: the root admin cannot be deleted: after any sequence of user add and
\* user delete requests the user with id 1 still exists.
\* (Under SpecAdmin: refuted by a delete_user_api request whose user_id is the
\* text "1", which is not == 1 and which the database reads as the id 1.)
C15_RootAdminKept == 1 \in DOMAIN users

\* no admin_schedule_api call is between its first and its last step
AllQuiet == \A c \in CallIds : calls[c].pc \in {"idle", "done", "failed"}

\* the call that completed last
LastCall ==
    CHOOSE c \in FinishedCalls :
        \A e \in FinishedCalls : calls[e].completed <= calls[c].completed

\* C16: after any sequence of admin_schedule_api calls, interleaved or not,
\* every call has succeeded and the scheduler holds exactly one job, with the
\* id 'backup_db_job' and the interval of the call that completed last.
C16_OneJobOfLastCall ==
    (AllQuiet /\ FinishedCalls # {}) =>
        /\ \A c \in FinishedCalls : calls[c].pc = "done"
        /\ DOMAIN jobs = {"backup_db_job"}
        /\ jobs["backup_db_job"] =
              [unit |-> calls[LastCall].unit, interval |-> calls[LastCall].interval]

=============================================================================
